---- MODULE Spec2Model ----
(***************************************************************************)
(* A model of mana_value_sim.py: one trial of simulate() (deck building,   *)
(* mulligan resolution, trimming, the turn loop) as a state machine.       *)
(*                                                                         *)
(* Cards are the dicts of the source: records with the same keys.  uuid4() *)
(* is modelled by the card's creation index (the target card is created    *)
(* first, then the 39 library cards in the order get_deck appends them).   *)
(*                                                                         *)
(* RNG.shuffle(deck) fixes a uniformly random order of the library.  The   *)
(* model resolves that order when it is observed: the cards of the         *)
(* shuffled library that no draw has looked at yet are the set `unseen`    *)
(* (they lie on top of the library), and `deck` is the sequence of cards   *)
(* below them, whose order is known because the code put them there.  The  *)
(* source's list `deck` is any ordering of `unseen` followed by `deck`.    *)
(* Cards of the same card_type and is_on_color differ only in their id,    *)
(* which the code uses for nothing but dict equality, so a draw from       *)
(* `unseen` chooses the kind of each card and takes the card of least id   *)
(* of that kind.                                                           *)
(***************************************************************************)
EXTENDS Integers, Sequences, FiniteSets

\* constants (mana_value_sim.py lines 10, 11)
DECK_SIZE == 40
LAND_COUNT == 17

\* Bounds of the inputs a direct caller of simulate() passes.
MaxManaValue == 2
MaxPips == 2

\* Python's None where the other values are strings (error messages)
None == "None"

\* An optional value (None or a number, None or a card): the empty sequence
\* for None, a one-element sequence otherwise
Absent == <<>>
Present(x) == <<x>>

VARIABLES
    pc,              \* position in simulate(): "call", "opening", "mulligan",
                     \* "trim", "check", "turn", "returned", "raised"
    args,            \* the arguments of the call
    target_card,     \* simulate(): target_card
    unseen,          \* the shuffled top of the library, order not yet observed
    deck,            \* simulate(): deck, the part below `unseen`
    hand,            \* simulate(): hand
    board,           \* simulate(): board
    mulligan_count,  \* simulate(): mulligan_count
    to_return,       \* simulate(): to_return
    turn,            \* simulate(): turn
    result,          \* the dict simulate() returns, Absent before
    error,           \* the message of the exception simulate() raised, None before
    strategies,      \* the turn loop seen from outside: the pairs <<on-color,
                     \* off-color>> of the numbers of lands that some sequence
                     \* of land drops, at most one a turn out of the cards the
                     \* turns so far have shown, leaves on the board
    run_pc,          \* position in run_simulations(): "idle", "running",
                     \* "returned", "raised"
    run_args,        \* the arguments of run_simulations()
    futures,         \* run_simulations(): the futures no worker has started yet
    results,         \* run_simulations(): results
    run_result,      \* what run_simulations() returned, Absent before
    run_error,       \* the message of the exception it raised, None before
    main_pc,         \* position in main(): "idle", "sweep", "done", "aborted"
    main_args,       \* the arguments of main()
    sweep_left,      \* main(): the combinations the loops have yet to reach
    main_call,       \* main(): the arguments of its latest call of
                     \* run_simulations(), Absent before the first
    collated_data,   \* main(): collated_data
    RNG,             \* the state of the module's Generator: the number of
                     \* shuffles it has made since it was seeded
    stream,          \* for each state of the Generator, the result of the game
                     \* on the deck that RNG.shuffle() leaves from that state
    pool,            \* the futures of a call of run_simulations() whose
                     \* workers run side by side: for each its position
                     \* ("submitted", "get_deck", "shuffled", "done",
                     \* "yielded"), the state of the Generator its shuffle
                     \* started from and the value its worker returned
    max_workers      \* run_simulations(): max_workers, 0 before a call

trialVars == <<pc, args, target_card, unseen, deck, hand, board, mulligan_count,
               to_return, turn, result, error, strategies>>
runVars == <<run_pc, run_args, futures, results, run_result, run_error>>
mainVars == <<main_pc, main_args, sweep_left, main_call, collated_data>>
poolVars == <<RNG, stream, pool, max_workers>>
vars == <<trialVars, runVars, mainVars, poolVars>>

----------------------------------------------------------------------------
\* Sequence helpers (Python list operations).

Min(a, b) == IF a < b THEN a ELSE b

\* range(n): empty when n <= 0
Range(n) == 1..n

\* a remove that leaves the list as it is
Remove_nothing(s, x) == s

\* list.remove(x): drops the first element equal to x
Remove(s, x) ==
    LET i == CHOOSE k \in 1..Len(s) : s[k] = x /\ \A j \in 1..(k - 1) : s[j] # x
    IN  SubSeq(s, 1, i - 1) \o SubSeq(s, i + 1, Len(s))

\* list.remove(x) for each x of xs in turn
RECURSIVE RemoveEach(_, _)
RemoveEach(s, xs) ==
    IF xs = <<>> THEN s ELSE RemoveEach(Remove(s, Head(xs)), Tail(xs))

Elements(s) == {s[i] : i \in 1..Len(s)}

----------------------------------------------------------------------------
\* Card model.

IsLand(card) == card.card_type = "land"
IsOnColorLand(card) == card.card_type = "land" /\ card.is_on_color
IsOffColorLand(card) == card.card_type = "land" /\ ~card.is_on_color
IsOtherCard(card) == card.card_type = "other_card"

\* card.get("is_on_color", False)
GetIsOnColor(card) ==
    IF "is_on_color" \in DOMAIN card THEN card.is_on_color ELSE FALSE
NotGetIsOnColor(card) == ~GetIsOnColor(card)

\* get_target_card_error with simulate()'s check of on_color_pips (< 0)
get_target_card_error_nonnegative(mana_value, on_color_pips, off_color_pips, generic) ==
    IF mana_value < 1
    THEN "get_target_card(): mana_value must be at least 1."
    ELSE IF on_color_pips < 0
    THEN "get_target_card(): on_color_pips must be a positive integer."
    ELSE IF off_color_pips < 0
    THEN "get_target_card(): off_color_pips must be a non-negative integer."
    ELSE IF generic < 0
    THEN "get_target_card(): generic must be a non-negative integer."
    ELSE IF on_color_pips + off_color_pips + generic # mana_value
    THEN "get_target_card(): The sum of on_color_pips, off_color_pips, and generic must equal mana_value."
    ELSE None

\* get_target_card(): the ValueError it raises, None when it returns
get_target_card_error(mana_value, on_color_pips, off_color_pips, generic) ==
    IF mana_value < 1
    THEN "get_target_card(): mana_value must be at least 1."
    ELSE IF on_color_pips < 1
    THEN "get_target_card(): on_color_pips must be a positive integer."
    ELSE IF off_color_pips < 0
    THEN "get_target_card(): off_color_pips must be a non-negative integer."
    ELSE IF generic < 0
    THEN "get_target_card(): generic must be a non-negative integer."
    ELSE IF on_color_pips + off_color_pips + generic # mana_value
    THEN "get_target_card(): The sum of on_color_pips, off_color_pips, and generic must equal mana_value."
    ELSE None

get_target_card(id, mana_value, on_color_pips, off_color_pips, generic) ==
    [id |-> id, card_type |-> "target_card", mana_value |-> mana_value,
     on_color_pips |-> on_color_pips, off_color_pips |-> off_color_pips,
     generic |-> generic]

get_land(id, is_on_color) ==
    [id |-> id, card_type |-> "land", is_on_color |-> is_on_color]

get_other_card(id) == [id |-> id, card_type |-> "other_card"]

get_land_split_error(on_color_count) ==
    IF on_color_count < 1
    THEN "get_land_split(): on_color_count must be a positive integer."
    ELSE None

\* get_land_split with the two counts swapped
get_land_split_swapped(on_color_count) ==
    [on_color |-> LAND_COUNT - on_color_count, off_color |-> on_color_count]

get_land_split(on_color_count) ==
    [on_color |-> on_color_count, off_color |-> LAND_COUNT - on_color_count]

----------------------------------------------------------------------------
\* Deck builder.

\* The list get_deck builds before it shuffles: the three append loops.  The
\* cards get the ids first_id, first_id + 1, ... in the order of creation.
BuildDeck(split, first_id) ==
    LET n_on == Cardinality(Range(split.on_color))
        n_off == Cardinality(Range(split.off_color))
        n_other == Cardinality(Range(DECK_SIZE - LAND_COUNT - 1))
    IN  [i \in 1..(n_on + n_off + n_other) |->
            IF i <= n_on THEN get_land(first_id + i - 1, TRUE)
            ELSE IF i <= n_on + n_off THEN get_land(first_id + i - 1, FALSE)
            ELSE get_other_card(first_id + i - 1)]

\* get_deck_error without the check of the off-color lands
get_deck_error_on_color_only(card, on_color_land_count) ==
    IF on_color_land_count < card.on_color_pips
    THEN "Invalid deck configuration: Not enough on-color lands"
    ELSE IF get_land_split_error(on_color_land_count) # None
    THEN get_land_split_error(on_color_land_count)
    ELSE IF Len(BuildDeck(get_land_split(on_color_land_count), card.id + 1))
                # DECK_SIZE - 1
    THEN "Deck size mismatch: len(deck) != DECK_SIZE - 1"
    ELSE None

\* get_deck(): the ValueError it raises, None when it returns
get_deck_error(card, on_color_land_count) ==
    IF on_color_land_count < card.on_color_pips
    THEN "Invalid deck configuration: Not enough on-color lands"
    ELSE IF LAND_COUNT - on_color_land_count < card.off_color_pips
    THEN "Invalid deck configuration: Not enough off-color lands"
    ELSE IF get_land_split_error(on_color_land_count) # None
    THEN get_land_split_error(on_color_land_count)
    ELSE IF Len(BuildDeck(get_land_split(on_color_land_count), card.id + 1))
                # DECK_SIZE - 1
    THEN "Deck size mismatch: len(deck) != DECK_SIZE - 1"
    ELSE None

\* get_deck(): the list it shuffles and returns
get_deck(card, on_color_land_count) ==
    BuildDeck(get_land_split(on_color_land_count), card.id + 1)

----------------------------------------------------------------------------
\* The library: `unseen` on top of `deck`.

Kinds == {"on", "off", "other"}

KindOf(card) ==
    IF IsOnColorLand(card) THEN "on"
    ELSE IF IsOffColorLand(card) THEN "off"
    ELSE "other"

OfKind(S, k) == {card \in S : KindOf(card) = k}

\* The n-th card of kind k in S, counting by creation order.
NthOfKind(S, k, n) ==
    CHOOSE card \in OfKind(S, k) :
        Cardinality({other \in OfKind(S, k) : other.id < card.id}) = n - 1

\* The cards of S that lie on top, in the order the shuffle gave them, when
\* their kinds are ks: cards of one kind are told apart by nothing the program
\* reads, so the i-th card of a kind to come up is the i-th of that kind in S.
Reveal(S, ks) ==
    [i \in 1..Len(ks) |->
        NthOfKind(S, ks[i], Cardinality({j \in 1..i : ks[j] = ks[i]}))]

\* The orders RNG.shuffle can have given the top n cards of the library.
Tops(S, n) ==
    LET m == Min(n, Cardinality(S))
    IN  {Reveal(S, ks) : ks \in
            {f \in [1..m -> Kinds] :
                \A k \in Kinds :
                    Cardinality({i \in 1..m : f[i] = k}) <= Cardinality(OfKind(S, k))}}

\* len(deck)
DeckLen(u, d) == Cardinality(u) + Len(d)

\* draw_n(): the ValueError it raises, None when it returns
draw_n_error(u, d, n) ==
    IF n < 1 THEN "Cannot draw less than 1 card."
    ELSE IF n > DeckLen(u, d) THEN "Cannot draw more cards than the deck holds."
    ELSE None

\* draw_n(): cards_drawn = deck[:n], deck = deck[n:], where the top of the
\* library turns out to be `top` (an element of Tops(u, n)).
draw_n(u, d, n, top) ==
    LET whole == top \o d
    IN  [cards_drawn |-> SubSeq(whole, 1, n),
         unseen |-> u \ Elements(top),
         deck |-> SubSeq(whole, n + 1, Len(whole))]

----------------------------------------------------------------------------
\* simulate()

\* lines 288-308: the ValueError of simulate()'s own validation
simulate_error(mana_value, on_color_pips, off_color_pips, on_color_land_count) ==
    IF mana_value < 1 THEN "Mana value must be at least 1."
    ELSE IF on_color_pips < 0 THEN "On-color pips must be a non-negative integer."
    ELSE IF off_color_pips < 0 THEN "Off-color pips must be a non-negative integer."
    ELSE IF on_color_land_count < 1 THEN "On-color land count must be at least 1."
    ELSE IF on_color_land_count > LAND_COUNT
    THEN "On-color land count must be at most LAND_COUNT."
    ELSE IF mana_value - on_color_pips - off_color_pips < 0
    THEN "Mana value is too low for the given pips."
    ELSE LET generic == mana_value - on_color_pips - off_color_pips
         IN  IF generic + on_color_pips + off_color_pips # mana_value
             THEN "Mana value mismatch"
             ELSE None

\* lines 287-317: the ValueError simulate() raises before it draws a card
\* (its own validation, get_target_card, get_deck), None when it gets past
simulate_entry_error(mana_value, on_color_pips, off_color_pips, on_color_land_count) ==
    LET e1 == simulate_error(mana_value, on_color_pips, off_color_pips,
                             on_color_land_count)
        generic == mana_value - on_color_pips - off_color_pips
        e2 == get_target_card_error(mana_value, on_color_pips,
                                    off_color_pips, generic)
        card == get_target_card(1, mana_value, on_color_pips,
                                off_color_pips, generic)
    IN  IF e1 # None THEN e1
        ELSE IF e2 # None THEN e2
        ELSE get_deck_error(card, on_color_land_count)

Raise(message) ==
    /\ pc' = "raised"
    /\ error' = message

\* The locals of simulate() before a call
TrialInit ==
    /\ pc = "call"
    /\ args = Absent
    /\ target_card = Absent
    /\ unseen = {}
    /\ deck = <<>>
    /\ hand = <<>>
    /\ board = <<>>
    /\ mulligan_count = 0
    /\ to_return = <<>>
    /\ turn = 0
    /\ result = Absent
    /\ error = None
    /\ strategies = {}

Init ==
    /\ TrialInit
    /\ run_pc = "idle"
    /\ run_args = Absent
    /\ futures = 0
    /\ results = <<>>
    /\ run_result = Absent
    /\ run_error = None
    /\ main_pc = "idle"
    /\ main_args = Absent
    /\ sweep_left = {}
    /\ main_call = Absent
    /\ collated_data = <<>>
    /\ RNG = 0
    /\ stream = <<>>
    /\ pool = <<>>
    /\ max_workers = 0

\* lines 287-317: validation, get_target_card, get_deck
Simulate(mana_value, on_color_pips, off_color_pips, on_color_land_count) ==
    /\ pc = "call"
    /\ args' = [mana_value |-> mana_value, on_color_pips |-> on_color_pips,
                off_color_pips |-> off_color_pips,
                on_color_land_count |-> on_color_land_count]
    /\ LET e == simulate_entry_error(mana_value, on_color_pips,
                                     off_color_pips, on_color_land_count)
           generic == mana_value - on_color_pips - off_color_pips
           card == get_target_card(1, mana_value, on_color_pips,
                                   off_color_pips, generic)
       IN  IF e # None
           THEN Raise(e) /\ UNCHANGED <<target_card, unseen>>
           ELSE /\ target_card' = card
                /\ unseen' = Elements(get_deck(card, on_color_land_count))
                /\ pc' = "opening"
                /\ UNCHANGED error
    /\ UNCHANGED <<deck, hand, board, mulligan_count, to_return, turn, result,
                   strategies>>

\* lines 319-330: the opening hand of 6 cards plus the target card
OpeningHand ==
    /\ UNCHANGED <<runVars, mainVars, poolVars>>
    /\ pc = "opening"
    /\ IF draw_n_error(unseen, deck, 6) # None
       THEN /\ Raise(draw_n_error(unseen, deck, 6))
            /\ UNCHANGED <<unseen, deck, hand, mulligan_count>>
       ELSE \E top \in Tops(unseen, 6) :
                LET d == draw_n(unseen, deck, 6, top)
                IN  /\ hand' = Append(d.cards_drawn, target_card)
                    /\ unseen' = d.unseen
                    /\ deck' = d.deck
                    /\ mulligan_count' = 0
                    /\ pc' = "mulligan"
                    /\ UNCHANGED error
    /\ UNCHANGED <<args, target_card, board, to_return, turn, result,
                   strategies>>

\* MulliganNeeded without the floor: the rule of attempt 2 at every later one
MulliganNeeded_no_floor(h, count) ==
    LET on_color_land_count == Len(SelectSeq(h, IsOnColorLand))
        off_color_land_count == Len(SelectSeq(h, IsOffColorLand))
    IN  IF count \in {0, 1} /\ on_color_land_count = 0 THEN TRUE
        ELSE IF count >= 2 /\ (on_color_land_count + off_color_land_count) = 0
        THEN TRUE
        ELSE FALSE

\* MulliganNeeded that asks for an on-color land at attempt 2 as well
MulliganNeeded_on_color_at_2(h, count) ==
    count \in {0, 1, 2} /\ Len(SelectSeq(h, IsOnColorLand)) = 0

\* lines 342 and 352: whether this pass of the mulligan loop takes a mulligan
MulliganNeeded(h, count) ==
    LET on_color_land_count == Len(SelectSeq(h, IsOnColorLand))
        off_color_land_count == Len(SelectSeq(h, IsOffColorLand))
    IN  IF count \in {0, 1} /\ on_color_land_count = 0 THEN TRUE
        ELSE IF count = 2 /\ (on_color_land_count + off_color_land_count) = 0
        THEN TRUE
        ELSE FALSE

\* PutBack that loses the hand instead of putting it back
PutBack_lost(d, h, card) == d

\* PutBack that puts the hand on top of what is known of the library
PutBack_on_top(d, h, card) == Remove(h, card) \o d

\* PutBack that puts the hand back in the opposite order
PutBack_reversed(d, h, card) ==
    d \o [i \in 1..(Len(h) - 1) |-> Remove(h, card)[Len(h) - i]]

\* lines 344-346 (354-356): the library after the hand, without the target
\* card, is put back
PutBack(d, h, card) == d \o Remove(h, card)

\* lines 331-369: one pass of the mulligan loop
Mulligan ==
    /\ UNCHANGED <<runVars, mainVars, poolVars>>
    /\ pc = "mulligan"
    /\ IF MulliganNeeded(hand, mulligan_count)
       THEN LET below == PutBack(deck, hand, target_card)
            IN  IF draw_n_error(unseen, below, 6) # None
                THEN /\ Raise(draw_n_error(unseen, below, 6))
                     /\ UNCHANGED <<unseen, deck, hand, mulligan_count, to_return>>
                ELSE \E top \in Tops(unseen, 6) :
                        LET d == draw_n(unseen, below, 6, top)
                        IN  /\ hand' = Append(d.cards_drawn, target_card)
                            /\ unseen' = d.unseen
                            /\ deck' = d.deck
                            /\ mulligan_count' = mulligan_count + 1
                            /\ UNCHANGED <<pc, error, to_return>>
       ELSE /\ pc' = "trim"
            /\ to_return' = <<>>
            /\ UNCHANGED <<unseen, deck, hand, mulligan_count, error>>
    /\ UNCHANGED <<args, target_card, board, turn, result, strategies>>

\* ReturnCard that returns a land before a filler
ReturnCard_lands_first(h) ==
    IF SelectSeq(h, IsLand) # <<>>
    THEN Present(Head(SelectSeq(h, IsLand)))
    ELSE IF SelectSeq(h, IsOtherCard) # <<>>
    THEN Present(Head(SelectSeq(h, IsOtherCard)))
    ELSE Absent

\* ReturnCard with the opposite priority: on-color lands first
ReturnCard_on_color_first(h) ==
    IF SelectSeq(h, IsOnColorLand) # <<>>
    THEN Present(Head(SelectSeq(h, IsOnColorLand)))
    ELSE IF SelectSeq(h, IsOffColorLand) # <<>>
    THEN Present(Head(SelectSeq(h, IsOffColorLand)))
    ELSE IF SelectSeq(h, IsOtherCard) # <<>>
    THEN Present(Head(SelectSeq(h, IsOtherCard)))
    ELSE Absent

\* lines 382-410: the card the trimming loop returns next, Absent when the
\* hand holds neither a filler nor a land
ReturnCard(h) ==
    IF SelectSeq(h, IsOtherCard) # <<>>
    THEN Present(Head(SelectSeq(h, IsOtherCard)))
    ELSE IF SelectSeq(h, IsOffColorLand) # <<>>
    THEN Present(Head(SelectSeq(h, IsOffColorLand)))
    ELSE IF SelectSeq(h, IsOnColorLand) # <<>>
    THEN Present(Head(SelectSeq(h, IsOnColorLand)))
    ELSE Absent

\* TrimDone of a loop whose break is never taken
TrimDone_never(count, returned) == FALSE

\* TrimDone that breaks one card early
TrimDone_early(count, returned) == count = 0 \/ Len(returned) = count - 1

\* lines 376-380: the trimming loop breaks
TrimDone(count, returned) == count = 0 \/ Len(returned) = count

\* lines 375-413: one pass of the trimming loop; the pass that breaks also
\* appends to_return to the library
Trim ==
    /\ UNCHANGED <<runVars, mainVars, poolVars>>
    /\ pc = "trim"
    /\ IF TrimDone(mulligan_count, to_return)
       THEN /\ deck' = deck \o to_return
            /\ pc' = "check"
            /\ UNCHANGED <<hand, to_return>>
       ELSE IF ReturnCard(hand) # Absent
       THEN /\ to_return' = Append(to_return, ReturnCard(hand)[1])
            /\ hand' = Remove(hand, ReturnCard(hand)[1])
            /\ UNCHANGED <<pc, deck>>
       ELSE UNCHANGED <<pc, deck, hand, to_return>>
    /\ UNCHANGED <<args, target_card, unseen, board, mulligan_count, turn,
                   result, error, strategies>>

\* line 419
HandSizeOk(h, count) == Len(h) = 7 - count

\* DeckSizeOk that expects the library of get_deck(), of DECK_SIZE - 1 cards
DeckSizeOk_whole_deck(u, d, h) == DeckLen(u, d) = DECK_SIZE - 1

\* line 423
DeckSizeOk(u, d, h) == DeckLen(u, d) = DECK_SIZE - Len(h)

\* lines 415-438: the size checks, then turn = 1 and an empty board
CheckSizes ==
    /\ UNCHANGED <<runVars, mainVars, poolVars>>
    /\ pc = "check"
    /\ IF ~HandSizeOk(hand, mulligan_count)
       THEN Raise("Hand size mismatch") /\ UNCHANGED <<turn, board, strategies>>
       ELSE IF ~DeckSizeOk(unseen, deck, hand)
       THEN /\ Raise("Deck size mismatch: len(deck) != DECK_SIZE - len(hand)")
            /\ UNCHANGED <<turn, board, strategies>>
       ELSE /\ turn' = 1
            /\ board' = <<>>
            /\ strategies' = {<<0, 0>>}
            /\ pc' = "turn"
            /\ UNCHANGED error
    /\ UNCHANGED <<args, target_card, unseen, deck, hand, mulligan_count,
                   to_return, result>>

\* LandDrop without the priorities: the first land of the hand, whatever its
\* color
LandDrop_first_land(h, b, card) ==
    IF SelectSeq(h, IsLand) # <<>>
    THEN Present(Head(SelectSeq(h, IsLand)))
    ELSE Absent

\* LandDrop without the land_drop flag and the elif chain: every land of the
\* hand is played
LandDrop_every(h, b, card) == SelectSeq(h, IsLand)

\* LandDrop that prefers an on-color land whatever the board holds
LandDrop_on_color_always(h, b, card) ==
    IF SelectSeq(h, IsOnColorLand) # <<>>
    THEN Present(Head(SelectSeq(h, IsOnColorLand)))
    ELSE IF SelectSeq(h, IsLand) # <<>>
    THEN Present(Head(SelectSeq(h, IsLand)))
    ELSE Absent

\* lines 450-511: the land played from hand h onto board b (the one the
\* if/elif chain picks), Absent when no land is played
LandDrop(h, b, card) ==
    LET have_lands == SelectSeq(h, IsLand) # <<>>
        hand_has_on_color_land == SelectSeq(h, IsOnColorLand) # <<>>
        hand_has_off_color_land == SelectSeq(h, IsOffColorLand) # <<>>
        board_on_color_count == Len(SelectSeq(b, GetIsOnColor))
        board_off_color_count == Len(SelectSeq(b, NotGetIsOnColor))
        on_color_req == card.on_color_pips
        off_color_req == card.off_color_pips
    IN  IF have_lands
        THEN IF hand_has_on_color_land /\ board_on_color_count < on_color_req
             THEN Present(Head(SelectSeq(h, IsOnColorLand)))
             ELSE IF hand_has_off_color_land /\ board_off_color_count < off_color_req
             THEN Present(Head(SelectSeq(h, IsOffColorLand)))
             ELSE IF SelectSeq(h, IsLand) # <<>>
             THEN Present(Head(SelectSeq(h, IsLand)))
             ELSE Absent
        ELSE Absent

\* CanCast without the check of the total number of lands
CanCast_pips_only(b, card) ==
    LET board_on_color_count == Len(SelectSeq(b, GetIsOnColor))
        board_off_color_count == Len(SelectSeq(b, NotGetIsOnColor))
    IN  /\ board_on_color_count >= card.on_color_pips
        /\ board_off_color_count >= card.off_color_pips

\* CanCast that asks for one land more than the mana value
CanCast_one_more(b, card) ==
    LET board_on_color_count == Len(SelectSeq(b, GetIsOnColor))
        board_off_color_count == Len(SelectSeq(b, NotGetIsOnColor))
    IN  /\ board_on_color_count >= card.on_color_pips
        /\ board_off_color_count >= card.off_color_pips
        /\ (board_on_color_count + board_off_color_count) > card.mana_value

\* lines 513-529: the cast check
CanCast(b, card) ==
    LET board_on_color_count == Len(SelectSeq(b, GetIsOnColor))
        board_off_color_count == Len(SelectSeq(b, NotGetIsOnColor))
    IN  /\ board_on_color_count >= card.on_color_pips
        /\ board_off_color_count >= card.off_color_pips
        /\ (board_on_color_count + board_off_color_count) >= card.mana_value

\* lines 531-538 and 543-550: the dict simulate() returns
TrialResult(cast_turn, card, count) ==
    [cast_turn |-> cast_turn, mana_value |-> card.mana_value,
     on_color_pips |-> card.on_color_pips,
     off_color_pips |-> card.off_color_pips, generic |-> card.generic,
     mulligan_count |-> count]

\* PlayTurn of a turn whose drawn card does not reach the hand
PlayTurn_without_draw(h) ==
    LET land == LandDrop(hand, board, target_card)
        b == board \o land
    IN  /\ hand' = RemoveEach(hand, land)
        /\ board' = b
        /\ IF CanCast(b, target_card)
           THEN /\ result' = Present(TrialResult(Present(turn), target_card,
                                                  mulligan_count))
                /\ pc' = "returned"
                /\ UNCHANGED turn
           ELSE /\ turn' = turn + 1
                /\ UNCHANGED <<pc, result>>

\* lines 450-541: the land drop and the cast check of a turn that holds hand h
\* after its draw step
PlayTurn(h) ==
    LET land == LandDrop(h, board, target_card)
        b == board \o land
    IN  /\ hand' = RemoveEach(h, land)
        /\ board' = b
        /\ IF CanCast(b, target_card)
           THEN /\ result' = Present(TrialResult(Present(turn), target_card,
                                                  mulligan_count))
                /\ pc' = "returned"
                /\ UNCHANGED turn
           ELSE /\ turn' = turn + 1
                /\ UNCHANGED <<pc, result>>

\* lines 442-511: the lands the turns so far have shown, on-color and
\* off-color: those in the hand and those on the board
Seen(h, b) ==
    <<Len(SelectSeq(h, IsOnColorLand)) + Len(SelectSeq(b, GetIsOnColor)),
      Len(SelectSeq(h, IsOffColorLand)) + Len(SelectSeq(b, NotGetIsOnColor))>>

\* lines 450-511: what a turn adds to the boards within reach: no land, or one
\* land of either kind that has been seen and is not yet on the board
OneMoreTurn(boards, seen) ==
    boards
    \cup {<<s[1] + 1, s[2]>> : s \in {r \in boards : r[1] < seen[1]}}
    \cup {<<s[1], s[2] + 1>> : s \in {r \in boards : r[2] < seen[2]}}

\* lines 439-550: one pass of the turn loop
Turn ==
    /\ UNCHANGED <<runVars, mainVars, poolVars>>
    /\ pc = "turn"
    /\ IF DeckLen(unseen, deck) > 0 /\ turn > 1
       THEN \E top \in Tops(unseen, 1) :
                LET d == draw_n(unseen, deck, 1, top)
                IN  /\ unseen' = d.unseen
                    /\ deck' = d.deck
                    /\ PlayTurn(Append(hand, d.cards_drawn[1]))
       ELSE IF DeckLen(unseen, deck) = 0
       THEN /\ result' = Present(TrialResult(Absent, target_card,
                                              mulligan_count))
            /\ pc' = "returned"
            /\ UNCHANGED <<unseen, deck, hand, board, turn>>
       ELSE /\ PlayTurn(hand)
            /\ UNCHANGED <<unseen, deck>>
    /\ strategies' = (IF pc' = "returned" /\ result'[1].cast_turn = Absent
                      THEN strategies
                      ELSE OneMoreTurn(strategies, Seen(hand', board')))
    /\ UNCHANGED <<args, target_card, mulligan_count, to_return, error>>

----------------------------------------------------------------------------
\* A direct call of simulate() with arguments from bounded sets.  The more
\* off-color lands a deck holds, the more hands it deals that the code tells
\* apart, so the decks with off-color lands play the shorter games: mana
\* values above MaxManaValue (games that last until the library is nearly or
\* wholly drawn) are called on the deck without off-color lands, and the deck
\* with two off-color lands (the first that can deal four hands in a row
\* without an on-color land) on mana value 1.

ManaValues == 0..MaxManaValue \cup {LAND_COUNT, LAND_COUNT + 1}
PipCounts == (0 - 1)..MaxPips \cup {LAND_COUNT + 1}
LandCounts ==
    {0, LAND_COUNT - 2, LAND_COUNT - 1, LAND_COUNT, LAND_COUNT + 1}

Called(mana_value, on_color_land_count) ==
    \/ on_color_land_count \notin 1..(LAND_COUNT - 1)
    \/ on_color_land_count = LAND_COUNT - 1 /\ mana_value <= MaxManaValue
    \/ on_color_land_count = LAND_COUNT - 2 /\ mana_value <= 1

CallSimulate ==
    /\ pc = "call"
    /\ run_pc = "idle"
    /\ main_pc = "idle"
    /\ \E mana_value \in ManaValues, on_color_pips \in PipCounts,
          off_color_pips \in PipCounts, on_color_land_count \in LandCounts :
            /\ Called(mana_value, on_color_land_count)
            /\ Simulate(mana_value, on_color_pips, off_color_pips,
                        on_color_land_count)
    /\ UNCHANGED <<runVars, mainVars, poolVars>>

----------------------------------------------------------------------------
\* run_simulations().  The pool's workers are modelled one trial at a time:
\* a trial's deck, hand and board are locals of its own call of simulate().

\* lines 602-620: the ValueError of run_simulations()'s validation
run_simulations_error(mana_value, on_color_pips, off_color_pips, on_color_land_count, num_simulations) ==
    IF mana_value < 1 THEN "Mana value must be at least 1."
    ELSE IF on_color_pips < 1 THEN "On-color pips must be a positive integer."
    ELSE IF off_color_pips < 0 THEN "Off-color pips must be a non-negative integer."
    ELSE IF on_color_land_count < 1 THEN "On-color land count must be at least 1."
    ELSE IF on_color_land_count > LAND_COUNT
    THEN "On-color land count must be at most LAND_COUNT."
    ELSE IF num_simulations < 1 THEN "Number of simulations must be at least 1."
    ELSE IF on_color_pips + off_color_pips > mana_value
    THEN "The sum of on_color_pips and off_color_pips must not exceed mana_value."
    ELSE None

RECURSIVE SumPresent(_)
SumPresent(xs) ==
    IF xs = <<>> THEN 0
    ELSE (IF Head(xs) = Absent THEN 0 ELSE Head(xs)[1]) + SumPresent(Tail(xs))

\* a mean that counts a value that is None as 0
Mean_over_all(xs) == [sum |-> SumPresent(xs), count |-> Len(xs)]

\* df[column].mean(): the mean of the values that are not None, as the pair
\* of their sum and their number (NaN when the number is 0)
Mean(xs) ==
    [sum |-> SumPresent(xs),
     count |-> Cardinality({i \in 1..Len(xs) : xs[i] # Absent})]

\* lines 652-661: the summary dict
Summary(a, rs) ==
    [mana_value |-> a.mana_value,
     on_color_pips |-> a.on_color_pips,
     off_color_pips |-> a.off_color_pips,
     on_color_land_count |-> a.on_color_land_count,
     off_color_land_count |-> LAND_COUNT - a.on_color_land_count,
     iterations |-> a.num_simulations,
     average_cast_turn |-> Mean([i \in 1..Len(rs) |-> rs[i].cast_turn]),
     average_mulligan_count |->
        Mean([i \in 1..Len(rs) |-> Present(rs[i].mulligan_count)])]

\* lines 590-644: validation, then one future per simulation
RunSimulations(mana_value, on_color_pips, off_color_pips, on_color_land_count, num_simulations) ==
    /\ run_pc = "idle"
    /\ main_pc = "idle"
    /\ pc = "call"
    /\ run_args' = [mana_value |-> mana_value, on_color_pips |-> on_color_pips,
                    off_color_pips |-> off_color_pips,
                    on_color_land_count |-> on_color_land_count,
                    num_simulations |-> num_simulations]
    /\ LET e == run_simulations_error(mana_value, on_color_pips, off_color_pips,
                                      on_color_land_count, num_simulations)
       IN  IF e # None
           THEN /\ run_pc' = "raised"
                /\ run_error' = e
                /\ UNCHANGED <<futures, results>>
           ELSE /\ run_pc' = "running"
                /\ futures' = num_simulations
                /\ results' = <<>>
                /\ UNCHANGED run_error
    /\ UNCHANGED <<run_result, trialVars, mainVars, poolVars>>

\* lines 630-637: a worker starts the next future: it calls simulate()
Worker ==
    /\ run_pc = "running"
    /\ futures > 0
    /\ futures' = futures - 1
    /\ Simulate(run_args.mana_value, run_args.on_color_pips,
                run_args.off_color_pips, run_args.on_color_land_count)
    /\ UNCHANGED <<run_pc, run_args, results, run_result, run_error, mainVars, poolVars>>

\* Collected that keeps a row for a trial that raised
Collected_keeps_none(rs, trial_pc, trial_result) ==
    IF trial_pc = "returned" THEN Append(rs, trial_result[1])
    ELSE Append(rs, [cast_turn |-> Absent, mulligan_count |-> 0])

\* lines 638-640 and 645-648: the worker's return value (None when simulate()
\* raised) reaches the as_completed loop, which keeps what is not None
Collected(rs, trial_pc, trial_result) ==
    IF trial_pc = "returned" THEN Append(rs, trial_result[1]) ELSE rs

Collect ==
    /\ run_pc = "running"
    /\ pc \in {"returned", "raised"}
    /\ results' = Collected(results, pc, result)
    /\ pc' = "call"
    /\ args' = Absent
    /\ target_card' = Absent
    /\ unseen' = {}
    /\ deck' = <<>>
    /\ hand' = <<>>
    /\ board' = <<>>
    /\ mulligan_count' = 0
    /\ to_return' = <<>>
    /\ turn' = 0
    /\ result' = Absent
    /\ error' = None
    /\ strategies' = {}
    /\ UNCHANGED <<run_pc, run_args, futures, run_result, run_error, mainVars, poolVars>>

\* lines 650-663: every future is done: the summary, or None
Aggregate ==
    /\ run_pc = "running"
    /\ futures = 0
    /\ pc = "call"
    /\ run_result' = (IF Len(results) > 0
                      THEN Present(Summary(run_args, results))
                      ELSE Absent)
    /\ run_pc' = "returned"
    /\ UNCHANGED <<run_args, futures, results, run_error, trialVars, mainVars, poolVars>>

\* A call of run_simulations() with arguments from bounded sets, on the deck
\* without off-color lands.  The state of a call holds the results of its
\* earlier trials too, so the trials that are played are those of mana value
\* 1, whose games are shortest, and those of a card of one on-color pip that
\* costs more than the deck has lands, which is never cast; the other mana
\* values are called where simulate() raises.
MaxSimulations == 2

RunManaValues == 0..MaxManaValue \cup {LAND_COUNT + 1}
RunLandCounts == {0, LAND_COUNT, LAND_COUNT + 1}

RunCalled(mana_value, on_color_pips, off_color_pips, on_color_land_count) ==
    \/ mana_value <= 1
    \/ mana_value > LAND_COUNT /\ on_color_pips = 1 /\ off_color_pips = 0
    \/ simulate_entry_error(mana_value, on_color_pips, off_color_pips,
                            on_color_land_count) # None

CallRunSimulations ==
    /\ run_pc = "idle"
    /\ \E mana_value \in RunManaValues, on_color_pips \in PipCounts,
          off_color_pips \in PipCounts, on_color_land_count \in RunLandCounts,
          num_simulations \in 0..MaxSimulations :
            /\ RunCalled(mana_value, on_color_pips, off_color_pips,
                         on_color_land_count)
            /\ RunSimulations(mana_value, on_color_pips, off_color_pips,
                              on_color_land_count, num_simulations)

----------------------------------------------------------------------------
\* The thread pool of run_simulations(), with its workers side by side.  The
\* workers share the module's Generator RNG (line 12): get_deck() shuffles
\* with it (line 199), and nothing else in simulate() uses it, so the game a
\* trial plays is fixed by the state of the Generator its shuffle starts
\* from.  RNG.shuffle(deck) is one call of the Generator, taken as one step.

\* line 623 without the cap
MaxWorkers_uncapped(cpu_count) ==
    (IF cpu_count = Absent \/ cpu_count = Present(0) THEN 1 ELSE cpu_count[1]) + 4

\* line 623: min(16, (os.cpu_count() or 1) + 4), os.cpu_count() being None
\* (Absent) or a number
MaxWorkers(cpu_count) ==
    Min(16, (IF cpu_count = Absent \/ cpu_count = Present(0) THEN 1 ELSE cpu_count[1]) + 4)

\* line 623: the smallest pool, that of a machine with one processor
MinWorkers == MaxWorkers(Present(1))

\* line 199: the state RNG.shuffle() leaves the Generator in
shuffle_state_stuck(state) == state

shuffle_state(state) == state + 1

\* lines 513-550: the results a game with arguments a can come to, among
\* those with at most one mulligan and cast on one of the first two turns
\* that have the lands for it
PoolGames(a) ==
    LET generic == a.mana_value - a.on_color_pips - a.off_color_pips
        card == get_target_card(1, a.mana_value, a.on_color_pips,
                                a.off_color_pips, generic)
    IN  {TrialResult(Present(t), card, k) :
            t \in a.mana_value..(a.mana_value + 1), k \in 0..1}

\* What the Generator may give to a call with arguments a.  A call with more
\* futures than MaxSimulations is there for the futures that wait for a
\* worker: its games all come to the same result.
Streams(a) ==
    IF a.num_simulations <= MaxSimulations
    THEN [0..(a.num_simulations - 1) -> PoolGames(a)]
    ELSE {[k \in 0..(a.num_simulations - 1) |-> game] : game \in {CHOOSE g \in PoolGames(a) : TRUE}}

\* lines 602-644: the call passes the validation and submits its futures
RunPool(mana_value, on_color_pips, off_color_pips, on_color_land_count, num_simulations, cpu_count) ==
    /\ run_pc = "idle"
    /\ main_pc = "idle"
    /\ pc = "call"
    /\ run_simulations_error(mana_value, on_color_pips, off_color_pips,
                             on_color_land_count, num_simulations) = None
    /\ run_args' = [mana_value |-> mana_value, on_color_pips |-> on_color_pips,
                    off_color_pips |-> off_color_pips,
                    on_color_land_count |-> on_color_land_count,
                    num_simulations |-> num_simulations]
    /\ run_pc' = "pool"
    /\ max_workers' = MaxWorkers(cpu_count)
    /\ results' = <<>>
    /\ pool' = [i \in 1..num_simulations |->
                    [pc |-> "submitted", state |-> Absent, value |-> Absent]]
    /\ stream' \in Streams(run_args')
    /\ UNCHANGED <<futures, run_result, run_error, RNG, trialVars, mainVars>>

\* lines 630-637 and 287-317, 176-196: a worker that is free starts a future:
\* simulate() raises, and the worker returns None, or builds the deck
PoolStart(i) ==
    /\ pool[i].pc = "submitted"
    /\ Cardinality({j \in 1..Len(pool) : pool[j].pc \in {"get_deck", "shuffled"}})
            < max_workers
    /\ pool' = [pool EXCEPT ![i].pc =
                    IF simulate_entry_error(run_args.mana_value,
                                            run_args.on_color_pips,
                                            run_args.off_color_pips,
                                            run_args.on_color_land_count) # None
                    THEN "done" ELSE "get_deck"]
    /\ UNCHANGED <<RNG, stream, max_workers, trialVars, runVars, mainVars>>

\* line 199: RNG.shuffle(deck)
PoolShuffle(i) ==
    /\ pool[i].pc = "get_deck"
    /\ pool' = [pool EXCEPT ![i].pc = "shuffled", ![i].state = Present(RNG)]
    /\ RNG' = shuffle_state(RNG)
    /\ UNCHANGED <<stream, max_workers, trialVars, runVars, mainVars>>

\* lines 319-550: the game on the shuffled deck, to its result
PoolPlay(i) ==
    /\ pool[i].pc = "shuffled"
    /\ pool' = [pool EXCEPT ![i].pc = "done",
                            ![i].value = Present(stream[pool[i].state[1]])]
    /\ UNCHANGED <<RNG, stream, max_workers, trialVars, runVars, mainVars>>

\* lines 645-648: as_completed() yields a future that is done
PoolCompleted(i) ==
    /\ pool[i].pc = "done"
    /\ pool' = [pool EXCEPT ![i].pc = "yielded"]
    /\ results' = Collected(results,
                            IF pool[i].value = Absent THEN "raised" ELSE "returned",
                            pool[i].value)
    /\ UNCHANGED <<run_pc, run_args, futures, run_result, run_error, RNG, stream,
                   max_workers,
                   trialVars, mainVars>>

\* lines 650-663: every future has been yielded: the summary, or None
PoolAggregate ==
    /\ run_pc = "pool"
    /\ \A i \in 1..Len(pool) : pool[i].pc = "yielded"
    /\ run_result' = (IF Len(results) > 0
                      THEN Present(Summary(run_args, results))
                      ELSE Absent)
    /\ run_pc' = "returned"
    /\ UNCHANGED <<run_args, futures, results, run_error, poolVars, trialVars,
                   mainVars>>

\* A call with the card of one on-color pip in the deck without off-color
\* lands; with an off-color pip its trials raise.  The machine has no known
\* number of processors, one, or enough for the cap of the pool; on the
\* machine with the smallest pool there is also the call with one future more
\* than workers.
CpuCounts == {Absent, Present(1), Present(12), Present(13)}

CallRunPool ==
    /\ run_pc = "idle"
    /\ \/ \E mana_value \in 1..MaxManaValue, off_color_pips \in 0..1,
             num_simulations \in 1..MaxSimulations, cpu_count \in CpuCounts :
                RunPool(mana_value, 1, off_color_pips, LAND_COUNT,
                        num_simulations, cpu_count)
       \/ RunPool(1, 1, 0, LAND_COUNT, MinWorkers + 1, Present(1))

StartWorker == run_pc = "pool" /\ \E i \in 1..Len(pool) : PoolStart(i)

Shuffle == run_pc = "pool" /\ \E i \in 1..Len(pool) : PoolShuffle(i)

Play == run_pc = "pool" /\ \E i \in 1..Len(pool) : PoolPlay(i)

Completed == run_pc = "pool" /\ \E i \in 1..Len(pool) : PoolCompleted(i)

----------------------------------------------------------------------------
\* main(): the sweep.  The loops go through the combinations in the order of
\* the nested range()s; the call of run_simulations() is modelled by its
\* outcome.

\* lines 687-715: the combinations <<on_color_land_count, mana_value,
\* on_color_pips, off_color_pips>> the loops call run_simulations() with
OnColorPipRange(mana_value) == 1..mana_value

Combinations(min_mana_value, max_mana_value, include_gold_cards) ==
    {t \in (1..LAND_COUNT) \X (min_mana_value..max_mana_value)
            \X ((0 - 1)..max_mana_value) \X (0..max_mana_value) :
        /\ t[3] \in OnColorPipRange(t[2])
        /\ IF include_gold_cards
           THEN /\ t[4] \in 0..(t[2] - t[3])
                /\ ~(t[3] = 0 /\ t[4] = 0)
                /\ ~(t[3] + t[4] > t[2])
           ELSE t[4] = 0}

\* The combination the nested loops reach first among those of S: the least
\* on_color_land_count, then the least mana_value, on_color_pips and
\* off_color_pips (every range() ascends).
Before(t, u) ==
    \/ t[1] < u[1]
    \/ t[1] = u[1] /\ t[2] < u[2]
    \/ t[1] = u[1] /\ t[2] = u[2] /\ t[3] < u[3]
    \/ t[1] = u[1] /\ t[2] = u[2] /\ t[3] = u[3] /\ t[4] <= u[4]

NextCombination(S) == CHOOSE t \in S : \A u \in S : Before(t, u)

\* SweepOutcome that takes a call whose trials were all discarded for one
\* with a summary
SweepOutcome_row_for_none(t, iterations) ==
    IF run_simulations_error(t[2], t[3], t[4], t[1], iterations) # None
    THEN "raised"
    ELSE "row"

\* What a call of run_simulations() by main() comes to: "raised" when its
\* validation raises, "none" when every trial is discarded because simulate()
\* raises before it draws a card, "row" otherwise.
SweepOutcome(t, iterations) ==
    IF run_simulations_error(t[2], t[3], t[4], t[1], iterations) # None
    THEN "raised"
    ELSE IF simulate_entry_error(t[2], t[3], t[4], t[1]) # None
    THEN "none"
    ELSE "row"

\* the columns of a row that do not depend on the trials
SweepRow(t, iterations) ==
    [mana_value |-> t[2], on_color_pips |-> t[3], off_color_pips |-> t[4],
     on_color_land_count |-> t[1], off_color_land_count |-> LAND_COUNT - t[1],
     iterations |-> iterations]

Main(iterations_per_simulation, min_mana_value, max_mana_value, include_gold_cards) ==
    /\ main_pc = "idle"
    /\ run_pc = "idle"
    /\ pc = "call"
    /\ main_args' = [iterations_per_simulation |-> iterations_per_simulation,
                     min_mana_value |-> min_mana_value,
                     max_mana_value |-> max_mana_value,
                     include_gold_cards |-> include_gold_cards]
    /\ main_pc' = "sweep"
    /\ sweep_left' = Combinations(min_mana_value, max_mana_value,
                                  include_gold_cards)
    /\ collated_data' = <<>>
    /\ UNCHANGED <<main_call, trialVars, runVars, poolVars>>

\* lines 693-701 and 717-729: the call for the next combination
SweepStep ==
    /\ main_pc = "sweep"
    /\ sweep_left # {}
    /\ LET t == NextCombination(sweep_left)
           outcome == SweepOutcome(t, main_args.iterations_per_simulation)
       IN  /\ main_call' = Present(t)
           /\ IF outcome = "raised" /\ ~main_args.include_gold_cards
              THEN /\ main_pc' = "aborted"
                   /\ UNCHANGED <<sweep_left, collated_data>>
              ELSE /\ sweep_left' = sweep_left \ {t}
                   /\ collated_data' =
                        (IF outcome = "row"
                         THEN Append(collated_data,
                                     SweepRow(t, main_args.iterations_per_simulation))
                         ELSE collated_data)
                   /\ UNCHANGED main_pc
    /\ UNCHANGED <<main_args, trialVars, runVars, poolVars>>

\* lines 731-736: the loops are over: the table is written
MainFinish ==
    /\ main_pc = "sweep"
    /\ sweep_left = {}
    /\ main_pc' = "done"
    /\ UNCHANGED <<main_args, sweep_left, main_call, collated_data, trialVars,
                   runVars, poolVars>>

CallMain ==
    /\ main_pc = "idle"
    /\ \E iterations_per_simulation \in 0..1, min_mana_value \in 0..1,
          max_mana_value \in 1..MaxManaValue, include_gold_cards \in BOOLEAN :
            Main(iterations_per_simulation, min_mana_value, max_mana_value,
                 include_gold_cards)

----------------------------------------------------------------------------
\* Spec: a direct call of simulate(), or a call of main().
\* RunSpec: a call of run_simulations().

Next ==
    \/ CallSimulate
    \/ OpeningHand
    \/ Mulligan
    \/ Trim
    \/ CheckSizes
    \/ Turn
    \/ CallMain
    \/ SweepStep
    \/ MainFinish

Spec == Init /\ [][Next]_vars

RunNext ==
    \/ CallRunSimulations
    \/ Worker
    \/ OpeningHand
    \/ Mulligan
    \/ Trim
    \/ CheckSizes
    \/ Turn
    \/ Collect
    \/ Aggregate

RunSpec == Init /\ [][RunNext]_vars

\* SweepSpec: a call of run_simulations(), or a call of main().
SweepNext ==
    \/ RunNext
    \/ CallMain
    \/ SweepStep
    \/ MainFinish

SweepSpec == Init /\ [][SweepNext]_vars

\* PoolSpec: a call of run_simulations(), its workers side by side.
PoolNext ==
    \/ CallRunPool
    \/ StartWorker
    \/ Shuffle
    \/ Play
    \/ Completed
    \/ PoolAggregate

PoolSpec == Init /\ [][PoolNext]_vars

\* Where simulate() is at a step other than a pass of the trimming loop: the
\* opening hand, a pass of the mulligan loop, the size checks, a turn.
Advancing == {"opening", "mulligan", "check", "turn"}

Advance == OpeningHand \/ Mulligan \/ CheckSizes \/ Turn

\* Such a step can be taken exactly where pc is in Advancing, and it changes
\* the state.
AdvanceEnabled == (pc \in Advancing) <=> ENABLED <<Advance>>_vars

\* WF_vars(Advance), written out as
\*     []<>~ENABLED <<Advance>>_vars \/ []<><<Advance>>_vars
\* with ENABLED <<Advance>>_vars as the state predicate AdvanceEnabled shows it
\* to be, and <<Advance>>_vars as the steps of Spec that change the state from
\* where Advance is enabled (to evaluate Advance on a pair of states is to
\* enumerate the hands of six cards again).
AdvanceFairness == []<>(pc \notin Advancing) \/ []<><<pc \in Advancing>>_vars

\* A call of simulate() in progress takes its next step: nothing in the code
\* waits.  (Whether a call is made at all is left open.)
LiveSpec == Spec /\ WF_vars(Trim) /\ AdvanceFairness

----------------------------------------------------------------------------
\* Properties.

OnColorLands(S) == {card \in S : card.card_type = "land" /\ card.is_on_color}
OffColorLands(S) == {card \in S : card.card_type = "land" /\ ~card.is_on_color}
Fillers(S) == {card \in S : card.card_type = "other_card"}

\* The arguments make a target card: simulate() gets as far as get_deck().
MakesTargetCard ==
    /\ args.mana_value >= 1
    /\ args.on_color_pips >= 1
    /\ args.off_color_pips >= 0
    /\ args.on_color_pips + args.off_color_pips <= args.mana_value
    /\ args.on_color_land_count >= 1
    /\ args.on_color_land_count <= LAND_COUNT

\* The land split can pay for the pips.
Feasible ==
    /\ args.on_color_pips <= args.on_color_land_count
    /\ args.off_color_pips <= LAND_COUNT - args.on_color_land_count

GetDeckErrors ==
    {"Invalid deck configuration: Not enough on-color lands",
     "Invalid deck configuration: Not enough off-color lands",
     "get_land_split(): on_color_count must be a positive integer.",
     "Deck size mismatch: len(deck) != DECK_SIZE - 1"}

\* C1: for every valid input (a target card with p >= 1 on-color and q >= 0
\* off-color pips, and c on-color lands with p <= c and q <= 17 - c),
\* get_deck returns, and the library it returns holds exactly 39 cards: c
\* on-color lands, 17 - c off-color lands, 22 fillers, and not the target card.
C1_DeckComposition ==
    (pc # "call" /\ MakesTargetCard /\ Feasible) =>
        /\ error \notin GetDeckErrors
        /\ pc = "opening" =>
            /\ deck = <<>>
            /\ Cardinality(unseen) = 39
            /\ Cardinality(OnColorLands(unseen)) = args.on_color_land_count
            /\ Cardinality(OffColorLands(unseen)) = 17 - args.on_color_land_count
            /\ Cardinality(Fillers(unseen)) = 22
            /\ \A card \in unseen : card.card_type # "target_card"

\* a library with one off-color land has been built for a two-color card
C1_Witness ==
    /\ pc = "opening"
    /\ args.on_color_land_count = 16
    /\ args.off_color_pips = 1

\* C2: when on_color_land_count < on_color_pips or 17 - on_color_land_count <
\* off_color_pips, get_deck raises a configuration error: no card of the
\* library has been created, nothing has been shuffled, no library is returned.
C2_InfeasibleDeckRejected ==
    (pc # "call" /\ MakesTargetCard /\ ~Feasible) =>
        /\ pc = "raised"
        /\ error \in {"Invalid deck configuration: Not enough on-color lands",
                      "Invalid deck configuration: Not enough off-color lands"}
        /\ (args.on_color_land_count < args.on_color_pips
                => error = "Invalid deck configuration: Not enough on-color lands")
        /\ unseen = {}
        /\ deck = <<>>
        /\ hand = <<>>
        /\ result = Absent

\* get_deck has refused a deck with too few on-color lands
C2_Witness ==
    /\ pc = "raised"
    /\ error = "Invalid deck configuration: Not enough on-color lands"
    /\ args.on_color_land_count >= 1

\* The hand is kept and trimmed: the size checks are next, or the turn loop
\* is about to start.
MulligansResolved == pc = "check" \/ (pc = "turn" /\ turn = 1)

\* C3: once the mulligans are resolved with mulligan_count = k, k in 0..3, the
\* kept hand holds exactly 7 - k cards (after the trimming, and when the turn
\* loop starts).
C3_KeptHandSize ==
    MulligansResolved =>
        /\ mulligan_count \in 0..3
        /\ Len(hand) = 7 - mulligan_count

\* the turn loop starts with a hand of 4 cards after 3 mulligans
C3_Witness ==
    /\ pc = "turn"
    /\ turn = 1
    /\ mulligan_count = 3
    /\ Len(hand) = 4

C5_MulliganFloor ==
    /\ mulligan_count \in 0..3
    /\ pc = "returned" => result[1].mulligan_count \in 0..3
    /\ MulligansResolved => Len(hand) >= 4

\* a fourth hand without a land is kept: the mulligan loop has stopped at 3
C5_Witness ==
    /\ pc = "trim"
    /\ mulligan_count = 3
    /\ SelectSeq(hand, IsLand) = <<>>

\* The three conditions of the cast check, on the lands of the board.
BoardPays ==
    /\ Cardinality({i \in 1..Len(board) :
            board[i].card_type = "land" /\ board[i].is_on_color})
        >= args.on_color_pips
    /\ Cardinality({i \in 1..Len(board) :
            board[i].card_type = "land" /\ ~board[i].is_on_color})
        >= args.off_color_pips
    /\ Len(board) >= args.mana_value

\* C6: if simulate returns cast_turn = t, the board of the cast check of turn
\* t pays for the card (on-color, off-color and total lands), and the board of
\* the cast check of every earlier turn did not: the loop goes on to a next
\* turn only with a board that does not pay.
C6_CastTurnIsFirst ==
    /\ (pc = "returned" /\ result[1].cast_turn # Absent) =>
            /\ result[1].cast_turn = Present(turn)
            /\ BoardPays
    /\ (pc = "turn" /\ turn > 1) => ~BoardPays

\* a two-mana card is cast on turn 4
C6_Witness ==
    /\ pc = "returned"
    /\ result[1].cast_turn = Present(4)
    /\ args.mana_value = 2

\* C7: every step leaves the board as it is or appends one card to it; a card
\* is appended only by a pass of the turn loop, and it is a land taken out of
\* the hand.  So at most one land is played per turn and the board never
\* loses a card.
C7_OneLandPerTurn ==
    [][/\ Len(board') \in {Len(board), Len(board) + 1}
       /\ SubSeq(board', 1, Len(board)) = board
       /\ Len(board') = Len(board) + 1 =>
            /\ pc = "turn"
            /\ board'[Len(board')].card_type = "land"
            /\ \A i \in 1..Len(hand') : hand'[i] # board'[Len(board')]
            /\ Len(hand') <= Len(hand)]_vars

\* turn 4 starts with two lands on the board: a turn went by without a land
C7_Witness ==
    /\ pc = "turn"
    /\ turn = 4
    /\ Len(board) = 2

TrialOver == pc \in {"returned", "raised"}

\* C8: every trial terminates; one that returns does so with a cast
\* (cast_turn is the current turn and the board pays) or with cast_turn absent
\* and the library empty; the turn counter never exceeds 38.
C8_Termination ==
    /\ [](pc = "returned" =>
            \/ result[1].cast_turn = Present(turn) /\ BoardPays
            \/ result[1].cast_turn = Absent /\ DeckLen(unseen, deck) = 0)
    /\ [](turn <= 38)
    /\ (pc # "call") ~> TrialOver

\* a trial has ended without a cast, after 3 mulligans, at turn 38
C8_Witness ==
    /\ pc = "returned"
    /\ result[1].cast_turn = Absent
    /\ turn = 38

ConfigurationErrors ==
    {"Mana value must be at least 1.",
     "On-color pips must be a non-negative integer.",
     "Off-color pips must be a non-negative integer.",
     "On-color land count must be at least 1.",
     "On-color land count must be at most LAND_COUNT.",
     "Mana value is too low for the given pips.",
     "get_target_card(): on_color_pips must be a positive integer."}

C10_RaisedTrialDiscarded ==
    [][/\ (run_pc = "running" /\ pc = "raised") =>
            /\ results' = results
            /\ futures' = futures
            /\ run_pc' = "running"
            /\ run_error' = None
       /\ run_pc = "running" => futures' <= futures
       /\ (run_pc' = "returned" /\ run_result' # Absent) =>
            /\ run_result'[1].average_mulligan_count.count = Len(results')
            /\ run_result'[1].average_cast_turn.count <= Len(results')]_vars

\* run_simulations has returned None after its 2 trials raised
C10_Witness ==
    /\ run_pc = "returned"
    /\ run_result = Absent
    /\ run_args.num_simulations = 2
    /\ futures = 0
    /\ results = <<>>

----------------------------------------------------------------------------
\* The sum of the numbers f[i], i in S
RECURSIVE Total(_, _)
Total(f, S) ==
    IF S = {} THEN 0
    ELSE LET i == CHOOSE j \in S : TRUE IN f[i] + Total(f, S \ {i})

\* The kept results of the call whose cast_turn is present
CastTrials == {i \in 1..Len(results) : results[i].cast_turn # Absent}

\* C11: in the summary run_simulations returns, average_cast_turn is the mean
\* of cast_turn over exactly the kept results whose cast_turn is present (their
\* sum over their number), average_mulligan_count is the mean of
\* mulligan_count over all the kept results, those that never cast included,
\* and iterations is the requested num_simulations.
C11_SummaryMeans ==
    (run_pc = "returned" /\ run_result # Absent) =>
        /\ run_result[1].iterations = run_args.num_simulations
        /\ run_result[1].average_cast_turn.count = Cardinality(CastTrials)
        /\ run_result[1].average_cast_turn.sum =
                Total([i \in CastTrials |-> results[i].cast_turn[1]], CastTrials)
        /\ run_result[1].average_mulligan_count.count = Len(results)
        /\ run_result[1].average_mulligan_count.sum =
                Total([i \in 1..Len(results) |-> results[i].mulligan_count],
                      1..Len(results))

\* a summary over two trials that never cast, one of them after a mulligan
C11_Witness ==
    /\ run_pc = "returned"
    /\ run_result # Absent
    /\ Len(results) = 2
    /\ CastTrials = {}
    /\ run_result[1].average_mulligan_count.sum > 0
    /\ run_result[1].iterations = 2

----------------------------------------------------------------------------
\* The trials of a call of run_simulations() with the arguments a all raise
NoTrialSucceeds(a) ==
    simulate_entry_error(a.mana_value, a.on_color_pips, a.off_color_pips,
                         a.on_color_land_count) # None

\* The combinations the step of the sweep has just been through
JustSwept == sweep_left \ sweep_left'

\* C12: when none of the trials of a call of run_simulations() gives a result
\* (which is when simulate() raises for the arguments of the call), the call
\* returns None and raises nothing; and the sweep that comes to a combination
\* whose call passes the validation of run_simulations() but whose trials all
\* raise appends no row and goes on.
C12_NoResultNoRow ==
    [][/\ (run_pc' = "returned" /\ results' = <<>>) =>
            /\ run_result' = Absent
            /\ run_error' = None
       /\ run_pc' = "returned" =>
            (results' = <<>> <=> NoTrialSucceeds(run_args'))
       /\ \A t \in JustSwept :
            (/\ run_simulations_error(t[2], t[3], t[4], t[1],
                                      main_args.iterations_per_simulation) = None
             /\ simulate_entry_error(t[2], t[3], t[4], t[1]) # None) =>
                /\ collated_data' = collated_data
                /\ main_pc' = "sweep"]_vars

\* the sweep has gone through the gold card of cost 2 in the deck without
\* off-color lands, whose trials all raise: there is no row for it among the
\* rows written
C12_Witness ==
    /\ main_pc = "sweep"
    /\ main_args.iterations_per_simulation = 1
    /\ main_call = Present(<<LAND_COUNT, 2, 1, 1>>)
    /\ Len(collated_data) > 0
    /\ \A i \in 1..Len(collated_data) :
            ~(/\ collated_data[i].on_color_land_count = LAND_COUNT
              /\ collated_data[i].off_color_pips = 1)

----------------------------------------------------------------------------
\* The futures whose trial is under way, and those whose shuffle has read and
\* advanced the Generator RNG
Running == {i \in 1..Len(pool) : pool[i].pc \in {"get_deck", "shuffled"}}

UsedRNG == {i \in 1..Len(pool) : pool[i].state # Absent}

\* C13: trials that run side by side share no mutable state: no two trials
\* under way at the same time have both read and written the same random
\* source.  (The code has one Generator for all of them.)
C13_TrialsShareNothing ==
    \A i \in Running \cap UsedRNG, j \in Running \cap UsedRNG : i = j

\* The results of the games that the Generator's first n shuffles lead to
FirstGames(n) == [k \in 1..n |-> stream[k - 1]]

\* C14: what run_simulations returns is fixed by its arguments and by what
\* the Generator gives from the state it is in at the call: None when the
\* trials raise, else the summary of the games of its first num_simulations
\* shuffles, whichever worker made which shuffle and in whatever order the
\* futures were completed.
C14_SameAggregate ==
    (run_pc = "returned" /\ pool # <<>>) =>
        run_result = (IF NoTrialSucceeds(run_args) THEN Absent
                      ELSE Present(Summary(run_args, FirstGames(Len(pool)))))

\* two trials whose shuffles came in the order opposite to their submission,
\* which led to different games, the second yielded first
C14_Witness ==
    /\ run_pc = "returned"
    /\ Len(pool) = 2
    /\ pool[1].state = Present(1)
    /\ pool[2].state = Present(0)
    /\ stream[0] # stream[1]
    /\ results = <<stream[0], stream[1]>>
    /\ run_result # Absent

----------------------------------------------------------------------------
\* C15: no combination aborts the sweep: the step of main() that comes to a
\* combination either appends exactly one row or appends none, takes the
\* combination off those still to come, and leaves main() in its loops.
\* (Without gold cards the call of run_simulations() is outside any try.)
C15_SweepNeverAborts ==
    [][(main_pc = "sweep" /\ sweep_left # {}) =>
            /\ main_pc' = "sweep"
            /\ sweep_left' = sweep_left \ {NextCombination(sweep_left)}
            /\ \/ collated_data' = collated_data
               \/ /\ Len(collated_data') = Len(collated_data) + 1
                  /\ SubSeq(collated_data', 1, Len(collated_data)) = collated_data]_vars

----------------------------------------------------------------------------
\* The hand holds no on-color land, no land at all
NoOnColorLand ==
    \A i \in 1..Len(hand) :
        ~(hand[i].card_type = "land" /\ hand[i].is_on_color)

NoLand == \A i \in 1..Len(hand) : hand[i].card_type # "land"

\* This step takes a mulligan; this step keeps the hand
TakesMulligan == pc' = "mulligan" /\ mulligan_count' = mulligan_count + 1

KeepsHand ==
    /\ pc' = "trim"
    /\ mulligan_count' = mulligan_count
    /\ hand' = hand

\* C16: a pass of the mulligan loop at attempt mulligan_count takes a
\* mulligan exactly when the hand holds no on-color land (attempts 0 and 1),
\* no land of any color (attempt 2), never (attempt 3); otherwise it stops the
\* loop and keeps the hand, mulligan_count being the index of that attempt;
\* and there is no attempt past 3.
C16_MulliganDecision ==
    [][pc = "mulligan" =>
        /\ mulligan_count \in 0..3
        /\ TakesMulligan \/ KeepsHand
        /\ mulligan_count \in {0, 1} => (TakesMulligan <=> NoOnColorLand)
        /\ mulligan_count = 2 => (TakesMulligan <=> NoLand)
        /\ mulligan_count = 3 => KeepsHand]_vars

\* the hand of attempt 2 was kept for its off-color land, though it holds no
\* on-color land
C16_Witness ==
    /\ pc = "trim"
    /\ mulligan_count = 2
    /\ to_return = <<>>
    /\ NoOnColorLand
    /\ ~NoLand

----------------------------------------------------------------------------
\* The cards of the hand other than the target card
Returned == Elements(hand) \ {target_card}

\* C17 as stated: a mulligan reshuffles the library with the returned hand
\* in it: after the step no card of the library has a place that the trial
\* has seen, and all 39 cards may come next.  (False for the code.)
C17_Reshuffled ==
    [][TakesMulligan => (deck' = <<>> /\ Cardinality(unseen') = DECK_SIZE - 7)]_vars

\* C17, amended: a mulligan does not reshuffle: the new hand is drawn from
\* the cards that were left in the library and holds none of the cards just
\* returned, and the cards returned by this and by earlier mulligans lie under
\* the rest of the library in the order in which they were put back.
C17_NoReshuffle ==
    [][TakesMulligan =>
        /\ (Elements(hand') \ {target_card}) \cap Returned = {}
        /\ (Elements(hand') \ {target_card}) \subseteq unseen
        /\ Len(deck') = Len(deck) + 6
        /\ SubSeq(deck', 1, Len(deck)) = deck
        /\ Elements(SubSeq(deck', Len(deck) + 1, Len(deck'))) = Returned]_vars

\* after the second mulligan the twelve cards of the first two hands lie at
\* the bottom of the library
C17_Witness ==
    /\ pc = "mulligan"
    /\ mulligan_count = 2
    /\ Len(deck) = 12
    /\ Cardinality(unseen) = DECK_SIZE - 1 - 18

\* C18: a mulligan step, from a hand of seven cards whose last is the target
\* card, appends the six others to the bottom of the library in their order
\* in the hand, makes the six cards then on top of the library the new hand
\* and appends the target card to it: a hand of seven cards with the target
\* card, a library of 33.
C18_MulliganStep ==
    [][TakesMulligan =>
        /\ Len(hand) = 7 /\ hand[7] = target_card
        /\ deck' = deck \o SubSeq(hand, 1, 6)
        /\ Len(hand') = 7 /\ hand'[7] = target_card
        /\ Cardinality(Elements(SubSeq(hand', 1, 6))) = 6
        /\ Elements(SubSeq(hand', 1, 6)) \subseteq unseen
        /\ unseen' = unseen \ Elements(SubSeq(hand', 1, 6))
        /\ target_card \notin unseen' \cup Elements(deck')
        /\ DeckLen(unseen', deck') = DECK_SIZE - 7]_vars

\* after the third mulligan: a hand of seven with the target card, a library
\* of 33 whose bottom 18 cards are the three hands put back
C18_Witness ==
    /\ pc = "mulligan"
    /\ mulligan_count = 3
    /\ Len(hand) = 7
    /\ hand[7] = target_card
    /\ Len(deck) = 18
    /\ DeckLen(unseen, deck) = DECK_SIZE - 7

----------------------------------------------------------------------------
\* The card this pass of the trimming loop takes from the hand
Trimmed == Elements(hand) \ Elements(hand')

\* C19: with mulligan_count = k the trimming loop takes exactly k cards from
\* the hand, one in a pass: a filler if the hand holds one, else an off-color
\* land if it holds one, else an on-color land (so an on-color land only from
\* a hand without fillers and off-color lands), never the target card; with
\* k cards taken it appends them to the bottom of the library and ends.
C19_TrimPriority ==
    [][pc = "trim" =>
        /\ Len(to_return) <= mulligan_count
        /\ Len(hand) + Len(to_return) = 7
        /\ Len(to_return) < mulligan_count =>
            /\ pc' = "trim"
            /\ Cardinality(Trimmed) = 1
            /\ Len(hand') = Len(hand) - 1
            /\ \A card \in Trimmed :
                /\ to_return' = Append(to_return, card)
                /\ card # target_card
                /\ IF Fillers(Elements(hand)) # {}
                   THEN card \in Fillers(Elements(hand))
                   ELSE IF OffColorLands(Elements(hand)) # {}
                   THEN card \in OffColorLands(Elements(hand))
                   ELSE card \in OnColorLands(Elements(hand))
            /\ deck' = deck
        /\ Len(to_return) = mulligan_count =>
            /\ pc' = "check"
            /\ hand' = hand
            /\ deck' = deck \o to_return]_vars

\* three cards were trimmed, an on-color land among them, and lie at the
\* bottom of the library
C19_Witness ==
    /\ pc = "check"
    /\ mulligan_count = 3
    /\ Len(to_return) = 3
    /\ Len(hand) = 4
    /\ OnColorLands(Elements(to_return)) # {}
    /\ SubSeq(deck, Len(deck) - 2, Len(deck)) = to_return

----------------------------------------------------------------------------
\* A turn that is played: the library is not empty when it starts
TurnPlayed == pc = "turn" /\ DeckLen(unseen, deck) > 0

\* The cards this turn puts on the board, and the hand it holds after its
\* draw step, before the land drop
Played == Elements(board') \ Elements(board)

HandAtDrop == Elements(hand') \cup Played

\* C20: the land a turn plays is picked on the counts of the board before the
\* drop: (a) an on-color land if the hand holds one and the board has fewer
\* on-color lands than the card has on-color pips; else (b) an off-color land
\* if the hand holds one and the board has fewer off-color lands than the
\* card has off-color pips; else (c) some land if the hand holds any; and
\* (d) the turn goes without a land drop only if the hand holds no land.
C20_LandDropPriority ==
    [][TurnPlayed =>
        LET on_color == OnColorLands(HandAtDrop)
            off_color == OffColorLands(HandAtDrop)
            board_on_color == Cardinality(OnColorLands(Elements(board)))
            board_off_color == Cardinality(OffColorLands(Elements(board)))
        IN  /\ board' = board \/ \E land \in Played : board' = Append(board, land)
            /\ IF on_color # {} /\ board_on_color < target_card.on_color_pips
               THEN Cardinality(Played) = 1 /\ Played \subseteq on_color
               ELSE IF off_color # {} /\ board_off_color < target_card.off_color_pips
               THEN Cardinality(Played) = 1 /\ Played \subseteq off_color
               ELSE IF on_color \cup off_color # {}
               THEN Cardinality(Played) = 1 /\ Played \subseteq on_color \cup off_color
               ELSE Played = {}
            /\ Played = {} => on_color \cup off_color = {}]_vars

\* turn 2 played an off-color land by (b), the on-color pip being paid for by
\* the land of turn 1, from a hand that held an on-color land as well
C20_Witness ==
    /\ pc = "returned"
    /\ target_card.off_color_pips = 1
    /\ Len(board) = 2
    /\ IsOnColorLand(board[1])
    /\ IsOffColorLand(board[2])
    /\ OnColorLands(Elements(hand)) # {}

----------------------------------------------------------------------------
\* The cards that leave the library in this step
Drawn == (unseen \cup Elements(deck)) \ (unseen' \cup Elements(deck'))

\* C21: a pass of the turn loop draws nothing on turn 1; on a later turn
\* with a library that is not empty it moves exactly the top card of the
\* library (one of the cards not yet seen, or the first of the cards put
\* back once those are gone) to the hand, where the land drop of the same
\* turn finds it; with an empty library it ends the trial with cast_turn
\* None, hand and board as they were.
C21_DrawStep ==
    [][pc = "turn" =>
        /\ turn >= 1
        /\ turn = 1 =>
            /\ DeckLen(unseen, deck) > 0
            /\ unseen' = unseen /\ deck' = deck
            /\ HandAtDrop = Elements(hand)
        /\ (turn >= 2 /\ DeckLen(unseen, deck) > 0) =>
            /\ Cardinality(Drawn) = 1
            /\ DeckLen(unseen', deck') = DeckLen(unseen, deck) - 1
            /\ IF unseen # {}
               THEN Drawn \subseteq unseen /\ deck' = deck
               ELSE Drawn = {Head(deck)} /\ deck' = Tail(deck)
            /\ HandAtDrop = Elements(hand) \cup Drawn
        /\ DeckLen(unseen, deck) = 0 =>
            /\ pc' = "returned"
            /\ result' # Absent /\ result'[1].cast_turn = Absent
            /\ hand' = hand /\ board' = board]_vars

\* turn 2 has drawn the one card that so far left the library of a kept hand
C21_Witness ==
    /\ pc = "turn"
    /\ turn = 3
    /\ DeckLen(unseen, deck) = DECK_SIZE - 8 + mulligan_count
    /\ Len(hand) + Len(board) = 8 - mulligan_count

----------------------------------------------------------------------------
\* The futures as_completed() has yielded
Yielded == {i \in 1..Len(pool) : pool[i].pc = "yielded"}

\* C22: a call of run_simulations() submits exactly num_simulations futures
\* to a pool of at most 16 workers, of which no more than max_workers are
\* under way at once; a trial under way can always take its next step,
\* whatever the others are at; results holds one entry for each future
\* yielded with a result and nothing else; and the call has returned only
\* when every future has been yielded.
C22_PoolRunsAllTrials ==
    pool # <<>> =>
        /\ Len(pool) = run_args.num_simulations
        /\ max_workers \in 1..16
        /\ Cardinality(Running) <= max_workers
        /\ \A i \in Running : ENABLED (PoolShuffle(i) \/ PoolPlay(i))
        /\ Len(results) = Cardinality({i \in Yielded : pool[i].value # Absent})
        /\ \A i \in Yielded :
                pool[i].value # Absent =>
                    \E j \in 1..Len(results) : results[j] = pool[i].value[1]
        /\ run_pc = "returned" => Yielded = 1..Len(pool)
        /\ run_pc # "returned" => run_result = Absent

\* every worker of the smallest pool has a trial under way, and a future
\* waits for one of them
C22_Witness ==
    /\ run_pc = "pool"
    /\ Cardinality(Running) = max_workers
    /\ \E i \in 1..Len(pool) : pool[i].pc = "submitted"

----------------------------------------------------------------------------
\* The trial is past its opening draw
Dealt == pc \in {"mulligan", "trim", "check", "turn", "returned"}

\* The cards of the library; the 40 cards of the trial
Library == unseen \cup Elements(deck)

AllCards ==
    {target_card} \cup Elements(get_deck(target_card, args.on_color_land_count))

\* No card is twice in the hand, in the known part of the library or on the
\* board; the target card is in the hand and not among the cards trimming
\* returns; the board holds only lands
CardsInPlace ==
    /\ Cardinality(Elements(hand)) = Len(hand)
    /\ Cardinality(Elements(deck)) = Len(deck)
    /\ Cardinality(Elements(board)) = Len(board)
    /\ unseen \cap Elements(deck) = {}
    /\ target_card \in Elements(hand)
    /\ target_card \notin Elements(to_return)
    /\ \A i \in 1..Len(board) : board[i].card_type = "land"

\* C23 as stated: at every step after the opening draw the hand, the library
\* and the board are pairwise disjoint and together hold exactly the 40
\* cards.  (False inside the trimming loop, whose cards wait in to_return.)
C23_ThreeHoldAll ==
    Dealt =>
        /\ CardsInPlace
        /\ Elements(hand) \cap Library = {}
        /\ Elements(hand) \cap Elements(board) = {}
        /\ Library \cap Elements(board) = {}
        /\ Elements(hand) \cup Library \cup Elements(board) = AllCards
        /\ Len(hand) + DeckLen(unseen, deck) + Len(board) = DECK_SIZE

\* The cards the trimming loop has taken from the hand and not yet appended
\* to the library
Aside == IF pc = "trim" THEN Elements(to_return) ELSE {}

\* C23, amended: at every step after the opening draw the hand, the library,
\* the board and, inside the trimming loop, the cards in to_return are
\* pairwise disjoint and together hold exactly the 40 cards, each once; from
\* the end of trimming on the first three hold them all.  The target card is
\* in the hand, never in to_return, and the board holds only lands.
C23_CardConservation ==
    Dealt =>
        /\ CardsInPlace
        /\ Elements(hand) \cap Library = {}
        /\ Elements(hand) \cap Elements(board) = {}
        /\ Library \cap Elements(board) = {}
        /\ Aside \cap (Elements(hand) \cup Library \cup Elements(board)) = {}
        /\ Elements(hand) \cup Library \cup Elements(board) \cup Aside = AllCards
        /\ Cardinality(AllCards) = DECK_SIZE
        /\ Len(hand) + DeckLen(unseen, deck) + Len(board) + Cardinality(Aside)
                = DECK_SIZE

\* inside the trimming loop after three mulligans: two cards wait in
\* to_return, 38 are in the hand and the library
C23_Witness ==
    /\ pc = "trim"
    /\ mulligan_count = 3
    /\ Len(to_return) = 2
    /\ Len(hand) + DeckLen(unseen, deck) = DECK_SIZE - 2

----------------------------------------------------------------------------
\* The turn that draws the last card of the library: the library of the first
\* turn holds DECK_SIZE - 7 + mulligan_count cards, and turn t draws card t - 1
LastDrawTurn == DECK_SIZE - 6 + mulligan_count

\* C24: with arguments that make a deck (Feasible) and a mana value of at
\* most LAND_COUNT, a trial never raises, never returns cast_turn None, and
\* casts no later than the turn that draws the last card of the library
\* (turn 34 + mulligan_count), whatever the order of the deck.
C24_AlwaysCast ==
    (pc # "call" /\ MakesTargetCard /\ Feasible /\ args.mana_value <= LAND_COUNT) =>
        /\ pc # "raised"
        /\ pc = "turn" => turn <= LastDrawTurn
        /\ pc = "returned" =>
            /\ result[1].cast_turn # Absent
            /\ result[1].cast_turn[1] <= LastDrawTurn
            /\ LastDrawTurn = 34 + result[1].mulligan_count

\* the card that costs as much as the deck has lands is cast on turn 37,
\* after three mulligans, with the last card of the library
C24_Witness ==
    /\ pc = "returned"
    /\ args.mana_value = LAND_COUNT
    /\ mulligan_count = 3
    /\ result[1].cast_turn = Present(37)
    /\ DeckLen(unseen, deck) = 0

----------------------------------------------------------------------------
\* The messages of the internal-consistency faults: the size checks of
\* simulate() (lines 419-426) and the checks of draw_n() (lines 226-235)
InternalFaults ==
    {"Hand size mismatch",
     "Deck size mismatch: len(deck) != DECK_SIZE - len(hand)",
     "Cannot draw less than 1 card.",
     "Cannot draw more cards than the deck holds."}

\* The trials of the call so far: those kept, those not yet started and the
\* one under way
TrialsAccounted == Len(results) + futures + (IF pc = "call" THEN 0 ELSE 1)

\* C25: a trial that raises has built no deck and raises none of the
\* internal-consistency faults; so in a call that passes the validation of
\* run_simulations() either every trial is discarded or none is, and the call
\* returns None exactly when on_color_land_count < on_color_pips or
\* LAND_COUNT - on_color_land_count < off_color_pips.
C25_AllOrNone ==
    /\ pc = "raised" =>
            /\ error \notin InternalFaults
            /\ unseen = {} /\ deck = <<>> /\ hand = <<>>
    /\ run_pc = "running" =>
            \/ results = <<>> /\ NoTrialSucceeds(run_args)
            \/ TrialsAccounted = run_args.num_simulations /\ pc # "raised"
    /\ run_pc = "returned" =>
            /\ Len(results) \in {0, run_args.num_simulations}
            /\ run_result = Absent <=>
                    \/ run_args.on_color_land_count < run_args.on_color_pips
                    \/ LAND_COUNT - run_args.on_color_land_count
                            < run_args.off_color_pips

\* a call for a card with more on-color pips than the deck has on-color
\* lands has returned None after its two trials raised
C25_Witness ==
    /\ run_pc = "returned"
    /\ run_result = Absent
    /\ run_args.num_simulations = 2
    /\ run_args.on_color_land_count < run_args.on_color_pips
    /\ run_args.off_color_pips = 0

----------------------------------------------------------------------------
\* The hand has been kept: the trimming loop runs, or is over and no turn
\* has been played
HandKept == pc = "trim" \/ MulligansResolved

\* C26: trimming leaves the land a hand was kept for: a hand kept with
\* mulligan_count 0 or 1 holds an on-color land at every pass of the trimming
\* loop and when the first turn starts, one kept with mulligan_count 2 holds a
\* land, and only a hand kept with mulligan_count 3 can be without a land.
C26_TrimKeepsLand ==
    HandKept =>
        /\ mulligan_count \in {0, 1} => ~NoOnColorLand
        /\ mulligan_count = 2 => ~NoLand
        /\ NoLand => mulligan_count = 3

\* the hand kept after one mulligan held nothing but on-color lands: trimming
\* returned one of them, and the hand of the first turn has five
C26_Witness ==
    /\ pc = "turn"
    /\ turn = 1
    /\ mulligan_count = 1
    /\ Len(to_return) = 1
    /\ IsOnColorLand(to_return[1])
    /\ Len(SelectSeq(hand, IsOnColorLand)) = 5

----------------------------------------------------------------------------
\* lines 513-529 read for a pair <<on-color, off-color>> of numbers of lands
\* on a board: the pair meets the cast condition of the target card
Pays(s) ==
    /\ s[1] >= target_card.on_color_pips
    /\ s[2] >= target_card.off_color_pips
    /\ s[1] + s[2] >= target_card.mana_value

\* lines 436-550: the turn loop is running or has returned
InTurns == pc \in {"turn", "returned"} /\ strategies # {}

\* C27: the land-drop policy is optimal.  The board of the Turn Engine is one
\* of the boards that the sequences of at most one land drop a turn, out of
\* the cards seen so far, can reach.  As long as the Turn Engine has not cast,
\* none of these boards meets the cast condition at the end of a turn played,
\* so the turn it returns is the earliest turn any of them could cast.  When it
\* returns an absent cast_turn the library is empty and even every land seen,
\* all on the board, would not meet the condition.
C27_OptimalPolicy ==
    InTurns =>
        /\ Seen(<<>>, board) \in strategies
        /\ pc = "turn" => \A s \in strategies : ~Pays(s)
        /\ pc = "returned" /\ result[1].cast_turn # Absent =>
               /\ result[1].cast_turn = Present(turn)
               /\ Pays(Seen(<<>>, board))
        /\ pc = "returned" /\ result[1].cast_turn = Absent =>
               /\ DeckLen(unseen, deck) = 0
               /\ \A s \in strategies : ~Pays(s)
               /\ ~Pays(Seen(hand, board))

\* A target card of one on-color and one off-color pip is cast on turn 3, one
\* turn after its mana value: the hand held on-color lands to spare and the
\* off-color land came on turn 3, so no sequence of land drops was faster.
C27_Witness ==
    /\ pc = "returned"
    /\ result # Absent
    /\ result[1].cast_turn = Present(3)
    /\ target_card.mana_value = 2
    /\ target_card.off_color_pips = 1
    /\ Len(board) = 3
    /\ IsOffColorLand(board[3])
    /\ SelectSeq(hand, IsOnColorLand) # <<>>
    /\ <<2, 1>> \in strategies
    /\ <<1, 1>> \in strategies

====
